---- MODULE Spec2Model ----
(***************************************************************************)
(* Model of the listing monitor (src/src/monitor.py) together with the     *)
(* parts of CoinMarketCalClient (src/src/coinmarketcal_client.py) and      *)
(* TelegramBot (src/src/telegram_bot.py) that decide which alerts go out   *)
(* and what is written to cache/previous_listings.json.                    *)
(*                                                                         *)
(* One process runs one cycle: __main__ constructs a ListingMonitor, which *)
(* loads the cache, and calls run() once.  The scheduler starts the next   *)
(* process after the previous one has ended.                               *)
(***************************************************************************)
EXTENDS Integers, Sequences, FiniteSets, TLC

\* ------------------------------------------------------------------ bounds
\* Largest number of events of one API response that reach the processing
\* loop of get_upcoming_listings.
MaxEvents == 2

\* ------------------------------------------------------- program constants
\* event.get('percentage', 0) yields None when the API sends null.
Null == -1

ConfidenceThreshold == 60

UnrankedPriority == 999

\* event.get('percentage', 0) when the event has no 'percentage' field: the
\* raw value before the default is applied.
Absent == -2

\* rich, plain, and both once more in the fallback loop of send_listing_alert.
MaxAttempts == 4

EmptyMap == [k \in {} |-> 0]

priority_exchanges ==
    ("binance" :> 1) @@ ("coinbase" :> 2) @@ ("coinbase pro" :> 2) @@
    ("bybit" :> 3) @@ ("kraken" :> 4)

\* Variant: listings of every exchange are collected.
is_priority_exchange_Any(exchange) == TRUE

is_priority_exchange(exchange) == exchange \in DOMAIN priority_exchanges

get_exchange_priority(exchange) ==
    IF exchange \in DOMAIN priority_exchanges
    THEN priority_exchanges[exchange]
    ELSE UnrankedPriority

\* ----------------------------------------------------------------- inputs
\* What parse_listing_event returns for an event of the feed: the fields the
\* pipeline reads (exchange, token, date make the key; confidence feeds the
\* filter; pairs and url are payload).
Listing(ex, tok, conf, u, p) ==
    [exchange |-> ex, token |-> tok, date |-> "TBA", confidence |-> conf,
     url |-> u, pairs |-> p]

EventUniverse ==
    { Listing("binance", "AAA", 80, "u1", <<"AAA/USDT", "AAA/BTC">>),
      Listing("binance", "AAA", 0, "u2", <<"AAA/USDT">>),
      Listing("binance", "BBB", 80, "u1", <<"BBB/USDT", "BBB/BTC">>),
      Listing("kraken", "AAA", 80, "u1", <<"AAA/USDT", "AAA/BTC">>),
      Listing("kraken", "AAA", 45, "u1", <<"AAA/USDT", "AAA/BTC">>),
      Listing("kraken", "BBB", Null, "u1", <<"BBB/USDT", "BBB/BTC">>),
      Listing("kucoin", "AAA", 90, "u1", <<"AAA/USDT", "AAA/BTC">>) }

\* The events processed by the loop of get_upcoming_listings.
Feeds == UNION { [1..n -> EventUniverse] : n \in 0..MaxEvents }

\* How the fetch ends: "none" - no exception; "request" - requests.get,
\* raise_for_status or response.json raised; "event" - the event after the
\* processed ones raised in is_exchange_listing (title or description null).
FetchErrors == {"none", "request", "event"}

\* Results of one write of the cache file.
WriteResults == {"ok", "unwritable", "torn"}

\* ---------------------------------------------------------- pure functions
get_listing_key(listing) ==
    <<listing.exchange, "_", listing.token, "_", listing.date>>

RECURSIVE InsertByPriority(_, _)
InsertByPriority(sorted, x) ==
    IF sorted = <<>> THEN <<x>>
    ELSE IF get_exchange_priority(Head(sorted).exchange)
              <= get_exchange_priority(x.exchange)
         THEN <<Head(sorted)>> \o InsertByPriority(Tail(sorted), x)
         ELSE <<x>> \o sorted

\* list.sort(key=priority): stable, ascending.
RECURSIVE SortByPriority(_)
SortByPriority(listings) ==
    IF listings = <<>> THEN <<>>
    ELSE InsertByPriority(SortByPriority(SubSeq(listings, 1, Len(listings) - 1)),
                          listings[Len(listings)])

Collected(feed) ==
    SelectSeq(feed, LAMBDA e : is_priority_exchange(e.exchange))

\* Variant: the except branch returns an empty list instead of what the loop
\* had collected.
get_upcoming_listings_Discard(feed, err) ==
    IF err = "none" THEN SortByPriority(Collected(feed)) ELSE <<>>

get_upcoming_listings(feed, err) ==
    CASE err = "request" -> <<>>
      [] err = "event" -> Collected(feed)
      [] OTHER -> SortByPriority(Collected(feed))

FilterRaises(listings) ==
    \E i \in DOMAIN listings : listings[i].confidence = Null

\* Variant: the threshold itself is not enough.
Accepts_Above(listing) ==
    \/ listing.confidence > ConfidenceThreshold
    \/ listing.exchange \in {"binance", "coinbase"}

Accepts(listing) ==
    \/ listing.confidence >= ConfidenceThreshold
    \/ listing.exchange \in {"binance", "coinbase"}

filter_high_confidence_listings(listings) == SelectSeq(listings, Accepts)

\* Variant: a listing counts as new when its stored record differs.
is_new_listing_ByRecord(listing, previous) ==
    \/ get_listing_key(listing) \notin DOMAIN previous
    \/ previous[get_listing_key(listing)] # listing

is_new_listing(listing, previous) ==
    get_listing_key(listing) \notin DOMAIN previous

NewListings(high, previous) ==
    SelectSeq(high, LAMBDA l : is_new_listing(l, previous))

Range(seq) == { seq[i] : i \in DOMAIN seq }

KeysOf(listings) == { get_listing_key(listings[i]) : i \in DOMAIN listings }

LastIndexOf(listings, key) ==
    CHOOSE i \in DOMAIN listings :
        /\ get_listing_key(listings[i]) = key
        /\ \A j \in DOMAIN listings :
               get_listing_key(listings[j]) = key => j <= i

\* all_listings[key] = listing, assigned in list order.
AllListings(high) ==
    [k \in KeysOf(high) |-> high[LastIndexOf(high, k)]]

\* Variant: the cache is never read back.
load_cache_Fresh(file) == EmptyMap

\* Variant: whatever the file holds is taken as the previous listings.
load_cache_Lenient(file) == file.data

\* load_cache: a missing file skips the read, a file that does not parse
\* raises inside the try; both end at 'return {}'.
load_cache(file) == IF file.kind = "json" THEN file.data ELSE EmptyMap

\* Variant: the cache is an append log, old keys are kept.
CacheToSaveMerged(all, previous) == all @@ previous

\* The argument of save_cache at line 116.
CacheToSave(all, previous) == all

\* The file after save_cache: the dumped map; after a dump that stopped
\* half-way, a piece of that map's JSON text, which no longer parses.
save_cache(file, listings, result) ==
    CASE result = "ok" -> [kind |-> "json", data |-> listings]
      [] result = "torn" -> [kind |-> "corrupt", data |-> listings]
      [] OTHER -> file

\* ------------------------------------------------------------------ state
VARIABLES
    cache_file,               \* cache/previous_listings.json
    pc,                       \* position of the current process
    previous_listings,        \* self.previous_listings
    feed, fetch_error,        \* this cycle's API response and how it ended
    upcoming_listings, high_confidence_listings, new_listings, all_listings,
    idx, attempt,             \* delivery loop index, transport attempt
    alerts,                   \* finished send_listing_alert calls of the cycle
    outcome,                  \* how run() ended
    attempted_keys,           \* keys alerted (tried) by earlier processes
    prev_cycle,               \* whether the preceding process committed, and
                              \* the listings its source returned if it did
    reads, writes,            \* load_cache / save_cache calls of the process
    probe_in, probe_out       \* a pure function applied on its own: the
                              \* call and its result

vars == <<cache_file, pc, previous_listings, feed, fetch_error,
          upcoming_listings, high_confidence_listings, new_listings,
          all_listings, idx, attempt, alerts, outcome, attempted_keys,
          prev_cycle, reads, writes, probe_in, probe_out>>

history == <<attempted_keys, prev_cycle>>

probe == <<probe_in, probe_out>>

monitor == <<cache_file, pc, previous_listings, feed, fetch_error,
             upcoming_listings, high_confidence_listings, new_listings,
             all_listings, idx, attempt, alerts, outcome, attempted_keys,
             prev_cycle, reads, writes>>

NoProbe == [fn |-> "none"]

NotCommitted == [committed |-> FALSE, upcoming |-> <<>>]

\* The state before the first process starts: no cache file yet.
InitMonitor ==
    /\ cache_file = [kind |-> "missing", data |-> EmptyMap]
    /\ pc = "start"
    /\ previous_listings = EmptyMap
    /\ feed = <<>>
    /\ fetch_error = "none"
    /\ upcoming_listings = <<>>
    /\ high_confidence_listings = <<>>
    /\ new_listings = <<>>
    /\ all_listings = EmptyMap
    /\ idx = 1
    /\ attempt = 1
    /\ alerts = <<>>
    /\ outcome = "none"
    /\ attempted_keys = {}
    /\ prev_cycle = NotCommitted
    /\ reads = 0
    /\ writes = 0

Init ==
    /\ InitMonitor
    /\ probe_in = NoProbe
    /\ probe_out = NoProbe

ResetLocals ==
    /\ previous_listings' = EmptyMap
    /\ feed' = <<>>
    /\ fetch_error' = "none"
    /\ upcoming_listings' = <<>>
    /\ high_confidence_listings' = <<>>
    /\ new_listings' = <<>>
    /\ all_listings' = EmptyMap
    /\ idx' = 1
    /\ attempt' = 1
    /\ alerts' = <<>>
    /\ outcome' = "none"
    /\ reads' = 0
    /\ writes' = 0

\* Variant: the constructor starts from an empty map and reads nothing.
Construct_NoLoad ==
    /\ pc = "start"
    /\ previous_listings' = EmptyMap
    /\ pc' = "run"
    /\ UNCHANGED <<cache_file, feed, fetch_error, upcoming_listings,
                   high_confidence_listings, new_listings, all_listings,
                   idx, attempt, alerts, outcome, history, reads, writes,
                   probe>>

\* ListingMonitor.__init__: the cache is read once, at construction.
Construct ==
    /\ pc = "start"
    /\ previous_listings' = load_cache(cache_file)
    /\ reads' = reads + 1
    /\ pc' = "run"
    /\ UNCHANGED <<cache_file, feed, fetch_error, upcoming_listings,
                   high_confidence_listings, new_listings, all_listings,
                   idx, attempt, alerts, outcome, history, writes, probe>>

\* Variant: run() has no early return.
AfterFetch_NoReturn(upcoming) == "classify"

\* run(), lines 78-80: 'if not upcoming_listings: return'.
AfterFetch(upcoming) == IF upcoming = <<>> THEN "done" ELSE "classify"

\* run(), lines 76-80: fetch; an empty result ends the cycle without a write.
Fetch ==
    /\ pc = "run"
    /\ \E f \in Feeds, err \in FetchErrors :
        /\ err = "request" => f = <<>>
        /\ feed' = f
        /\ fetch_error' = err
        /\ upcoming_listings' = get_upcoming_listings(f, err)
        /\ pc' = AfterFetch(get_upcoming_listings(f, err))
        /\ outcome' = IF AfterFetch(get_upcoming_listings(f, err)) = "done"
                      THEN "skipped" ELSE outcome
    /\ UNCHANGED <<cache_file, previous_listings, high_confidence_listings,
                   new_listings, all_listings, idx, attempt, alerts, history,
                   reads, writes, probe>>

\* run(), lines 83-95: confidence filter, key map, new listings.  A null
\* confidence makes the comparison raise; run() logs and re-raises.
Classify ==
    /\ pc = "classify"
    /\ IF FilterRaises(upcoming_listings)
       THEN /\ pc' = "done"
            /\ outcome' = "raised"
            /\ UNCHANGED <<high_confidence_listings, new_listings, all_listings>>
       ELSE /\ high_confidence_listings' =
                   filter_high_confidence_listings(upcoming_listings)
            /\ all_listings' =
                   AllListings(filter_high_confidence_listings(upcoming_listings))
            /\ new_listings' =
                   NewListings(filter_high_confidence_listings(upcoming_listings),
                               previous_listings)
            /\ pc' = "deliver"
            /\ outcome' = outcome
    /\ UNCHANGED <<cache_file, previous_listings, feed, fetch_error,
                   upcoming_listings, idx, attempt, alerts, history,
                   reads, writes, probe>>

\* Variant: the write does not wait for the delivery loop.
SaveReadyAnytime(i, new) == TRUE

\* The loop of lines 101-111 is over: every new listing has been handled.
SaveReady(i, new) == i > Len(new)

\* Variant: the try/except encloses the whole loop, a failure ends it.
AfterFailureBreak(i, new) == Len(new) + 1

\* Where the loop goes after send_listing_alert raised for entry i (line 110
\* catches the exception inside the loop body).
AfterFailure(i, new) == i + 1

InProgress ==
    IF pc = "deliver" /\ attempt > 1 THEN {get_listing_key(new_listings[idx])}
    ELSE {}

AlertListings == [i \in DOMAIN alerts |-> alerts[i].listing]

\* One transport attempt of TelegramBot.send_listing_alert for new_listings[idx]:
\* attempts 1 and 3 send the markdown message, 2 and 4 the plain one; the
\* first success ends the call, the fourth failure raises to run().
SendAttempt ==
    /\ pc = "deliver"
    /\ idx <= Len(new_listings)
    /\ \E ok \in BOOLEAN :
        IF ok
        THEN /\ alerts' = Append(alerts,
                     [listing |-> new_listings[idx], result |-> "sent"])
             /\ idx' = idx + 1
             /\ attempt' = 1
        ELSE IF attempt < MaxAttempts
        THEN /\ attempt' = attempt + 1
             /\ UNCHANGED <<alerts, idx>>
        ELSE /\ alerts' = Append(alerts,
                     [listing |-> new_listings[idx], result |-> "failed"])
             /\ idx' = AfterFailure(idx, new_listings)
             /\ attempt' = 1
    /\ UNCHANGED <<cache_file, pc, previous_listings, feed, fetch_error,
                   upcoming_listings, high_confidence_listings, new_listings,
                   all_listings, outcome, history, reads, writes, probe>>

\* Variant: save_cache has no except branch, a failed write raises to run().
WriteOutcomePropagates(result) == IF result = "ok" THEN "saved" ELSE "raised"

\* How run() goes on after save_cache: the except at lines 43-44 logs a failed
\* write, nothing is raised.
WriteOutcome(result) == IF result = "ok" THEN "saved" ELSE result

\* run(), line 116: save_cache(all_listings).  The write can succeed, fail
\* before the file is opened (file untouched), or stop after open(..., 'w')
\* truncated the file (json.dump raised, or the process was stopped while
\* dumping; the file no longer parses); save_cache swallows the exception.
SaveCacheWith(result) ==
    /\ pc = "deliver"
    /\ SaveReady(idx, new_listings)
    /\ cache_file' = save_cache(cache_file,
                                CacheToSave(all_listings, previous_listings),
                                result)
    /\ outcome' = WriteOutcome(result)
    /\ writes' = writes + 1
    /\ pc' = "done"
    /\ UNCHANGED <<previous_listings, feed, fetch_error, upcoming_listings,
                   high_confidence_listings, new_listings, all_listings, idx,
                   attempt, alerts, history, reads, probe>>

SaveCache == \E result \in WriteResults : SaveCacheWith(result)

SaveCacheOk == SaveCacheWith("ok")

\* The process ends; the scheduler may start the next one.
Exit ==
    /\ pc = "done"
    /\ pc' = "start"
    /\ attempted_keys' = attempted_keys \cup KeysOf(AlertListings)
    /\ prev_cycle' = IF outcome = "saved"
                     THEN [committed |-> TRUE, upcoming |-> upcoming_listings]
                     ELSE NotCommitted
    /\ ResetLocals
    /\ UNCHANGED <<cache_file, probe>>

\* The process is terminated from outside before run() reached the write.
Crash ==
    /\ pc \in {"run", "classify", "deliver"}
    /\ pc' = "start"
    /\ attempted_keys' = attempted_keys \cup KeysOf(AlertListings) \cup InProgress
    /\ prev_cycle' = NotCommitted
    /\ ResetLocals
    /\ UNCHANGED <<cache_file, probe>>

Next == Construct \/ Fetch \/ Classify \/ SendAttempt \/ SaveCache \/ Exit \/ Crash

Spec == Init /\ [][Next]_vars

\* The same program in an environment without faults of the process or of
\* the file system: no crash, every write of the cache succeeds.
NextNoFault == Construct \/ Fetch \/ Classify \/ SendAttempt \/ SaveCacheOk \/ Exit

SpecNoFault == Init /\ [][NextNoFault]_vars

\* ------------------------------------------------------------ properties
SentKeys ==
    { get_listing_key(alerts[i].listing) :
        i \in { j \in DOMAIN alerts : alerts[j].result = "sent" } }

Committed == pc = "done" /\ outcome = "saved"

ReachedWrite == pc = "done" /\ outcome \in {"saved", "unwritable", "torn"}

StoreNow == load_cache(cache_file)

\* C1: when the preceding process committed and the source returns the same
\* listings again, the cycle finds no new listing and sends no alert.
C1_Idempotent ==
    (/\ pc \in {"classify", "deliver", "done"}
     /\ prev_cycle.committed
     /\ upcoming_listings = prev_cycle.upcoming)
    => /\ new_listings = <<>>
       /\ alerts = <<>>
       /\ attempt = 1

C1_Witness ==
    /\ Committed
    /\ prev_cycle.committed
    /\ upcoming_listings = prev_cycle.upcoming
    /\ Len(high_confidence_listings) = 2
    /\ alerts = <<>>

\* C2 (as claimed): no alert is delivered for a key for which an earlier
\* process already attempted an alert.
C2_NeverReAlerted == SentKeys \cap attempted_keys = {}

\* C3: the cache file changes only in the step that ends the delivery loop,
\* when send_listing_alert has been called for every new listing; a process
\* that stops earlier leaves the file as it was; every key the file holds
\* has had an alert attempted, by this process or an earlier one.
C3_WriteAfterDelivery ==
    [][/\ cache_file' # cache_file =>
            /\ pc = "deliver" /\ pc' = "done"
            /\ AlertListings = new_listings
       /\ (pc # "done" /\ pc' = "start") => cache_file' = cache_file
       /\ (DOMAIN StoreNow)' \subseteq (attempted_keys \cup KeysOf(AlertListings))'
      ]_vars

C3_Witness ==
    /\ Committed
    /\ Len(new_listings) = 2
    /\ \E i \in DOMAIN alerts :
          /\ get_listing_key(alerts[i].listing) \in attempted_keys
          /\ get_listing_key(alerts[i].listing) \in DOMAIN cache_file.data

\* C4 (as claimed, in the form a finite run decides): a cycle does not record
\* a listing as seen when every delivery of its alert failed; once recorded,
\* the key is never new again, so the listing would stay undelivered however
\* long it stays in the corpus.
C4_FailedNotRecorded ==
    Committed =>
        \A i \in DOMAIN alerts :
            alerts[i].result = "failed" =>
                \/ get_listing_key(alerts[i].listing) \notin DOMAIN StoreNow
                \/ get_listing_key(alerts[i].listing) \in SentKeys

C6_OneAlertPerKey ==
    \A i, j \in DOMAIN alerts :
        (/\ i # j
         /\ alerts[i].result = "sent"
         /\ alerts[j].result = "sent")
        => get_listing_key(alerts[i].listing) # get_listing_key(alerts[j].listing)

\* C7: an accepted listing whose key is in the loaded store gets no alert,
\* whatever its other fields, and the committed store holds the last record
\* observed under that key.
C7_RefreshSilently ==
    \A i \in DOMAIN high_confidence_listings :
        LET k == get_listing_key(high_confidence_listings[i]) IN
        k \in DOMAIN previous_listings =>
            /\ k \notin KeysOf(AlertListings) \cup InProgress
            /\ high_confidence_listings[i] \notin Range(new_listings)
            /\ Committed =>
                  cache_file.data[k] =
                      high_confidence_listings[
                          LastIndexOf(high_confidence_listings, k)]

C7_Witness ==
    /\ Committed
    /\ alerts = <<>>
    /\ \E i \in DOMAIN high_confidence_listings :
          LET k == get_listing_key(high_confidence_listings[i]) IN
          /\ k \in DOMAIN previous_listings
          /\ previous_listings[k].url # high_confidence_listings[i].url
          /\ previous_listings[k].confidence # high_confidence_listings[i].confidence
          /\ previous_listings[k].pairs # high_confidence_listings[i].pairs
          /\ cache_file.data[k] = high_confidence_listings[i]

\* C8: send_listing_alert is called for the new listings one after the other
\* whether or not earlier calls failed, and the write comes after the last.
C8_FailureDoesNotBlock ==
    /\ pc = "deliver" =>
          /\ idx <= Len(new_listings) + 1
          /\ AlertListings = SubSeq(new_listings, 1, idx - 1)
    /\ ReachedWrite => AlertListings = new_listings

C8_Witness ==
    /\ Committed
    /\ Len(alerts) = 2
    /\ alerts[1].result = "failed"
    /\ alerts[2].result = "sent"

C10_PriorityOrder ==
    \A i, j \in DOMAIN alerts :
        (i < j /\ alerts[i].result = "sent" /\ alerts[j].result = "sent") =>
            get_exchange_priority(alerts[i].listing.exchange)
                <= get_exchange_priority(alerts[j].listing.exchange)

\* ------------------------------------------------- the confidence filter
\* Largest 'percentage' the API sends.
MaxPercentage == 100

\* Exchange names parse_listing_event can put on a listing.
FilterExchanges ==
    {"binance", "coinbase", "coinbase pro", "bybit", "kraken", "kucoin"}

\* The 'percentage' field of an event: a number, null, or not there.
Percentages == {Absent, Null} \cup (0..MaxPercentage)

\* parse_listing_event, line 139: 'confidence': event.get('percentage', 0).
\* The default applies to a missing field only, a null stays None.
event_percentage(raw) == IF raw = Absent THEN 0 ELSE raw

\* filter_high_confidence_listings applied to the listing alone.
FilterResult(listing) ==
    IF FilterRaises(<<listing>>) THEN "raised"
    ELSE IF filter_high_confidence_listings(<<listing>>) = <<listing>>
         THEN "kept"
         ELSE "dropped"

InitFilter ==
    /\ InitMonitor
    /\ probe_in \in [fn : {"filter"}, exchange : FilterExchanges,
                     percentage : Percentages]
    /\ probe_out = NoProbe

ApplyFilter ==
    /\ probe_in.fn = "filter"
    /\ probe_out = NoProbe
    /\ probe_out' =
          [fn |-> "filter",
           result |-> FilterResult(
               Listing(probe_in.exchange, "AAA",
                       event_percentage(probe_in.percentage),
                       "u1", <<"AAA/USDT", "AAA/BTC">>))]
    /\ UNCHANGED <<monitor, probe_in>>

SpecFilter == InitFilter /\ [][ApplyFilter]_vars

C12_AbsentScoredZero ==
    (probe_out.fn = "filter" /\ probe_in.percentage \in {Absent, Null}) =>
        probe_out.result =
            IF probe_in.exchange \in {"binance", "coinbase"}
            THEN "kept" ELSE "dropped"

\* ------------------------------------------------------- the identity key
\* Longest token and longest date string of the listings compared.
MaxTokenLen == 3

MaxDateLen == 2

SeqsOf(chars, lo, hi) == UNION { [1..n -> chars] : n \in lo..hi }

\* Exchange names as character strings; one is a prefix of the other.
KeyExchanges ==
    { <<"c", "o", "i", "n", "b", "a", "s", "e">>,
      <<"c", "o", "i", "n", "b", "a", "s", "e", " ", "p", "r", "o">> }

\* extract_tokens yields upper-case runs of at least two letters.
KeyTokens == SeqsOf({"A", "B"}, 2, MaxTokenLen)

\* The date is the formatted event date, "TBA", or, when it does not parse,
\* the API's string as it came: any non-empty text, underscores included.
KeyDates == SeqsOf({"1", "_"}, 1, MaxDateLen)

KeyTriples == [exchange : KeyExchanges, token : KeyTokens, date : KeyDates]

\* Variant: the date is left out of the key.
get_listing_key_text_NoDate(listing) ==
    listing.exchange \o <<"_">> \o listing.token

\* get_listing_key as the string the f-string builds, character by
\* character: f"{exchange}_{token}_{date}".
get_listing_key_text(listing) ==
    listing.exchange \o <<"_">> \o listing.token \o <<"_">> \o listing.date

InitKey ==
    /\ InitMonitor
    /\ probe_in \in [fn : {"key"}, a : KeyTriples, b : KeyTriples]
    /\ probe_out = NoProbe

ApplyKey ==
    /\ probe_in.fn = "key"
    /\ probe_out = NoProbe
    /\ probe_out' = [fn |-> "key",
                     a |-> get_listing_key_text(probe_in.a),
                     b |-> get_listing_key_text(probe_in.b)]
    /\ UNCHANGED <<monitor, probe_in>>

SpecKey == InitKey /\ [][ApplyKey]_vars

C15_LoadNeverRaises ==
    (pc \in {"run", "classify", "deliver"} /\ cache_file.kind # "json") =>
        /\ previous_listings = EmptyMap
        /\ pc = "deliver" => new_listings = high_confidence_listings

C15_Witness ==
    /\ pc = "deliver"
    /\ cache_file.kind = "corrupt"
    /\ cache_file.data # EmptyMap
    /\ Len(new_listings) = 2
    /\ Len(alerts) = 2

\* C16: a failed write raises nothing, run() ends as after a good write;
\* the file then holds the map the process loaded or nothing readable, so
\* a later cycle can only alert again what was alerted before: every key
\* still in the store has had its alert attempted by an earlier process.
C16_WriteFailureTolerated ==
    /\ writes = 1 => ReachedWrite
    /\ (pc = "done" /\ outcome \in {"unwritable", "torn"}) =>
          /\ StoreNow \in {previous_listings, EmptyMap}
          /\ DOMAIN StoreNow \subseteq attempted_keys
          /\ AlertListings = new_listings

C16_Witness ==
    /\ pc = "done"
    /\ outcome = "unwritable"
    /\ StoreNow # EmptyMap
    /\ \E i \in DOMAIN alerts :
          /\ alerts[i].result = "sent"
          /\ get_listing_key(alerts[i].listing) \notin DOMAIN StoreNow

\* C17 (as claimed): a cycle that has listings to process runs to its commit
\* step; no failure propagates out of run().
C17_RunsToCommit ==
    (pc = "done" /\ upcoming_listings # <<>>) => ReachedWrite

\* C18 (as claimed): the write is atomic: whenever the process stops, the
\* file is the old store or the complete new one, never a partial file.
C18_WriteAtomic == cache_file.kind \in {"missing", "json"}

\* -------------------------------------------------------- delivery order
\* C19 (as claimed): alerts for listings of the same priority rank go out in
\* ascending token order, whatever the order in which the source returned
\* them.
C19_TokenOrderWithinRank ==
    fetch_error = "none" =>
        \A i, j \in DOMAIN alerts :
            (/\ i < j
             /\ get_exchange_priority(alerts[i].listing.exchange)
                   = get_exchange_priority(alerts[j].listing.exchange))
            => ~(/\ alerts[i].listing.token = "BBB"
                 /\ alerts[j].listing.token = "AAA")

\* ----------------------------------------------------- token extraction
\* Largest number of words of a title.
MaxWords == 5

UpperLetters ==
    { "A", "B", "C", "D", "E", "F", "G", "H", "I", "J", "K", "L", "M",
      "N", "O", "P", "Q", "R", "S", "T", "U", "V", "W", "X", "Y", "Z" }

\* Characters that are not word characters for the regex \b.
NonWordChars == {"$", "(", ")", "/", " "}

IsWordChar(c) == c \notin NonWordChars

\* The words titles are made of; a title is its words, separated by blanks.
Words ==
    { <<"T", "H", "E">>, <<"N", "E", "W">>,
      <<"L", "I", "S", "T", "I", "N", "G">>, <<"O", "F">>,
      <<"X", "Y", "Z">>, <<"U", "S", "D", "T">>, <<"$", "B", "T", "C">>,
      <<"(", "E", "T", "H", ")">> }

Titles == UNION { [1..n -> Words] : n \in 0..MaxWords }

\* Whether the regex \b matches just before position i of the word.
Boundary(w, i) ==
    IF i = 1 THEN IsWordChar(w[1])
    ELSE IF i = Len(w) + 1 THEN IsWordChar(w[Len(w)])
    ELSE IsWordChar(w[i - 1]) # IsWordChar(w[i])

\* The ends j of [A-Z]{lo,hi} matched from position i.
RunEnds(w, i, lo, hi) ==
    { j \in (i + lo - 1)..(IF Len(w) < i + hi - 1 THEN Len(w) ELSE i + hi - 1) :
        \A k \in i..j : w[k] \in UpperLetters }

SetMax(S) == CHOOSE x \in S : \A y \in S : y <= x

\* The group matched at position i of the word by pattern p, greedy:
\*   1  \b([A-Z]{2,8})\b      2  \$([A-Z]{2,8})\b
\*   3  \(([A-Z]{2,8})\)      4  ([A-Z]{2,10})
\* to = 0 when the pattern does not match there.
GroupAt(p, w, i) ==
    LET from == IF p \in {1, 4} THEN i ELSE i + 1
        starts == CASE p = 1 -> Boundary(w, i)
                    [] p = 2 -> w[i] = "$"
                    [] p = 3 -> w[i] = "("
                    [] OTHER -> TRUE
        ends == { j \in RunEnds(w, from, 2, IF p = 4 THEN 10 ELSE 8) :
                    CASE p \in {1, 2} -> Boundary(w, j + 1)
                      [] p = 3 -> j < Len(w) /\ w[j + 1] = ")"
                      [] OTHER -> TRUE }
    IN  IF starts /\ ends # {}
        THEN [from |-> from, to |-> SetMax(ends)]
        ELSE [from |-> 0, to |-> 0]

RECURSIVE FindAllInWord(_, _, _)
FindAllInWord(p, w, i) ==
    IF i > Len(w) THEN <<>>
    ELSE IF GroupAt(p, w, i).to = 0 THEN FindAllInWord(p, w, i + 1)
    ELSE <<SubSeq(w, GroupAt(p, w, i).from, GroupAt(p, w, i).to)>>
         \o FindAllInWord(p, w, GroupAt(p, w, i).to + (IF p = 3 THEN 2 ELSE 1))

\* re.findall(pattern, text): the groups of all matches, left to right.
RECURSIVE findall(_, _)
findall(p, text) ==
    IF text = <<>> THEN <<>>
    ELSE FindAllInWord(p, Head(text), 1) \o findall(p, Tail(text))

\* list(dict.fromkeys(tokens)): first occurrences, in order.
RECURSIVE Dedupe(_)
Dedupe(tokens) ==
    IF tokens = <<>> THEN <<>>
    ELSE LET rest == Dedupe(SubSeq(tokens, 1, Len(tokens) - 1))
             last == tokens[Len(tokens)]
         IN  IF last \in Range(rest) THEN rest ELSE Append(rest, last)

false_positives ==
    { <<"U", "S", "D">>, <<"E", "U", "R">>, <<"G", "B", "P">>,
      <<"B", "T", "C">>, <<"E", "T", "H">>, <<"U", "S", "D", "T">>,
      <<"U", "S", "D", "C">>, <<"A", "P", "I">>, <<"N", "E", "W">>,
      <<"T", "H", "E">>, <<"A", "N", "D">>, <<"F", "O", "R">>,
      <<"U", "T", "C">>, <<"G", "M", "T">> }

\* extract_tokens, line 190.
valid_token(token) ==
    /\ 2 <= Len(token) /\ Len(token) <= 6
    /\ token \notin false_positives

\* CoinMarketCalClient.extract_tokens.
extract_tokens(text) ==
    Dedupe(SelectSeq(findall(1, text) \o findall(2, text) \o findall(3, text),
                     valid_token))

\* No token: parse_listing_event returns None, extract_token returns None.
NoToken == <<>>

\* parse_listing_event, lines 103-112, for an event with an empty description.
listing_token(title) ==
    IF extract_tokens(title) = <<>> THEN NoToken ELSE Head(extract_tokens(title))

legacy_false_positives ==
    { <<"U", "T", "C">>, <<"G", "M", "T">>, <<"T", "H", "E">>,
      <<"A", "N", "D">>, <<"F", "O", "R">>, <<"N", "E", "W">> }

\* BinanceListingBot.extract_token (src/monitor.py).
extract_token(title) ==
    LET tokens == SelectSeq(findall(1, title),
                            LAMBDA t : t \notin legacy_false_positives
                                       /\ Len(t) >= 2)
    IN  IF tokens = <<>> THEN NoToken ELSE Head(tokens)

\* BybitScraper.parse_listing_announcement: re.search, the first match.
parse_listing_announcement(title) ==
    IF findall(4, title) = <<>> THEN NoToken ELSE Head(findall(4, title))

InitExtract ==
    /\ InitMonitor
    /\ probe_in \in [fn : {"extract"}, title : Titles]
    /\ probe_out = NoProbe

ApplyExtractor(by, token) ==
    /\ probe_in.fn = "extract"
    /\ probe_out = NoProbe
    /\ probe_out' = [fn |-> "extract", by |-> by, token |-> token]
    /\ UNCHANGED <<monitor, probe_in>>

ParseListingEvent ==
    ApplyExtractor("CoinMarketCalClient", listing_token(probe_in.title))

ExtractToken ==
    ApplyExtractor("BinanceListingBot", extract_token(probe_in.title))

ParseListingAnnouncement ==
    ApplyExtractor("BybitScraper", parse_listing_announcement(probe_in.title))

NextExtract == ParseListingEvent \/ ExtractToken \/ ParseListingAnnouncement

SpecExtract == InitExtract /\ [][NextExtract]_vars

\* C20 (as claimed): token extraction never returns a token of the stop
\* list (USD, UTC, BTC, ETH, USDT, USDC, THE, AND, FOR, NEW, API), and the
\* title "THE NEW LISTING OF XYZ" yields XYZ.
C20_NoStopWordToken ==
    probe_out.fn = "extract" =>
        /\ probe_out.token \notin
             { <<"U", "S", "D">>, <<"U", "T", "C">>, <<"B", "T", "C">>,
               <<"E", "T", "H">>, <<"U", "S", "D", "T">>, <<"U", "S", "D", "C">>,
               <<"T", "H", "E">>, <<"A", "N", "D">>, <<"F", "O", "R">>,
               <<"N", "E", "W">>, <<"A", "P", "I">> }
        /\ probe_in.title = <<<<"T", "H", "E">>, <<"N", "E", "W">>,
                              <<"L", "I", "S", "T", "I", "N", "G">>, <<"O", "F">>,
                              <<"X", "Y", "Z">>>>
              => probe_out.token = <<"X", "Y", "Z">>

\* ------------------------------------------------------ the date field
\* Python's None as the value of a date field.
NoneDate == "None"

\* The 'date_event' field of an API event: not there, null, empty, a
\* timestamp dateutil parses, or text it does not parse.
DateEvents ==
    {"absent", "null", "", "2026-11-05T10:00:00Z", "2026-11-06T08:30:00Z",
     "soon"}

\* parser.parse(...).strftime('%Y-%m-%d %H:%M UTC') where parsing succeeds.
ParsedDates ==
    ("2026-11-05T10:00:00Z" :> "2026-11-05 10:00 UTC") @@
    ("2026-11-06T08:30:00Z" :> "2026-11-06 08:30 UTC")

\* parse_listing_event, lines 115-125.
formatted_date(date_event) ==
    IF date_event \in {"absent", "null", ""} THEN "TBA"
    ELSE IF date_event \in DOMAIN ParsedDates THEN ParsedDates[date_event]
    ELSE date_event

\* What BinanceScraper gets for the announcement page: the request failed,
\* or a page with or without text that matches a date pattern.
AnnouncementPages == {"request failed", "no date", "2026-11-05 10:00"}

\* BinanceScraper.parse_listing_announcement, lines 81-91 with
\* extract_listing_date: the first match, None without a match, None when
\* the request raised.
listing_date(page) ==
    IF page \in {"request failed", "no date"} THEN NoneDate ELSE page

InitDate ==
    /\ InitMonitor
    /\ probe_in \in
          [fn : {"date"}, by : {"CoinMarketCalClient"},
           exchange : DOMAIN priority_exchanges, token : {"AAA", "BBB"},
           date : DateEvents]
          \cup
          [fn : {"date"}, by : {"BinanceScraper"}, exchange : {"binance"},
           token : {"AAA", "BBB"}, date : AnnouncementPages]
    /\ probe_out = NoProbe

\* The record parse_listing_event returns, and the key run() gives it.
ParseEventDate ==
    /\ probe_in.fn = "date"
    /\ probe_in.by = "CoinMarketCalClient"
    /\ probe_out = NoProbe
    /\ LET listing ==
              [Listing(probe_in.exchange, probe_in.token, 80, "u1",
                       <<"AAA/USDT", "AAA/BTC">>)
                  EXCEPT !.date = formatted_date(probe_in.date)]
       IN  probe_out' = [fn |-> "date", date |-> listing.date,
                         key |-> get_listing_key(listing)]
    /\ UNCHANGED <<monitor, probe_in>>

\* The record BinanceScraper.parse_listing_announcement returns; no caller
\* gives it a key.
ParseAnnouncementDate ==
    /\ probe_in.fn = "date"
    /\ probe_in.by = "BinanceScraper"
    /\ probe_out = NoProbe
    /\ probe_out' = [fn |-> "date", date |-> listing_date(probe_in.date),
                     key |-> <<>>]
    /\ UNCHANGED <<monitor, probe_in>>

NextDate == ParseEventDate \/ ParseAnnouncementDate

SpecDate == InitDate /\ [][NextDate]_vars

\* C21 (as claimed): every listing record produced has a date that is not
\* null; when the source gave no date the date is the sentinel string, and
\* the identity key is built from that string.
C21_DateNeverNull ==
    probe_out.fn = "date" =>
        /\ probe_out.date # "None"
        /\ probe_in.date \in {"absent", "null", "", "request failed", "no date"}
              => probe_out.date = "TBA"
        /\ probe_in.by = "CoinMarketCalClient" =>
              probe_out.key = <<probe_in.exchange, "_", probe_in.token, "_",
                                probe_out.date>>

\* ------------------------------------------- one call of send_listing_alert
\* The listings run() can pass to send_listing_alert.
SendableListings == { l \in EventUniverse : l.confidence # Null }

\* Variant: the fallback inside send_listing_alert_async sends the markdown
\* message again.
message_kind_RichOnly(n) == "rich"

\* The message of the n-th send_message of one call: send_listing_alert_async
\* sends the markdown message and, when that raised, the simplified one; the
\* wrapper's except branch runs send_listing_alert_async once more.
message_kind(n) == IF n \in {1, 3} THEN "rich" ELSE "plain"

\* How the call stands after its n-th send_message.
call_status(n, ok) ==
    IF ok THEN "returned"
    ELSE IF n < MaxAttempts THEN "running"
    ELSE "raised"

InitSend ==
    /\ InitMonitor
    /\ probe_in \in [fn : {"send"}, listing : SendableListings,
                     loop_running : BOOLEAN]
    /\ probe_out = [fn |-> "send", status |-> "running", log |-> <<>>]

\* One bot.send_message of the call; the transport decides whether it raises.
SendMessage ==
    /\ probe_in.fn = "send"
    /\ probe_out.status = "running"
    /\ \E ok \in BOOLEAN :
          probe_out' =
              [fn |-> "send",
               status |-> call_status(Len(probe_out.log) + 1, ok),
               log |-> Append(probe_out.log,
                              [kind |-> message_kind(Len(probe_out.log) + 1),
                               ok |-> ok])]
    /\ UNCHANGED <<monitor, probe_in>>

SpecSend == InitSend /\ [][SendMessage]_vars

C23_EmptyFetchNoWrite ==
    [][(pc = "run" /\ pc' # "start" /\ upcoming_listings' = <<>>) =>
          /\ pc' = "done"
          /\ outcome' = "skipped"
          /\ cache_file' = cache_file
          /\ alerts' = <<>>
          /\ writes' = 0
      ]_vars
    /\ [](fetch_error = "request" => upcoming_listings = <<>>)
    /\ []((pc = "done" /\ upcoming_listings = <<>>) =>
            /\ alerts = <<>>
            /\ writes = 0
            /\ StoreNow = previous_listings)
    /\ [][(pc = "done" /\ outcome = "skipped") => cache_file' = cache_file]_vars

C23_Witness ==
    /\ pc = "done"
    /\ outcome = "skipped"
    /\ fetch_error = "request"
    /\ cache_file.kind = "json"
    /\ cache_file.data # EmptyMap

\* C24: every alert and every stored record is for a listing of a ranked
\* exchange (binance, coinbase, coinbase pro, bybit, kraken); a listing of
\* another exchange does not reach the confidence filter, whatever its
\* confidence.
C24_RankedExchangesOnly ==
    LET Ranked == {"binance", "coinbase", "coinbase pro", "bybit", "kraken"} IN
    /\ \A i \in DOMAIN upcoming_listings :
          upcoming_listings[i].exchange \in Ranked
    /\ \A i \in DOMAIN alerts : alerts[i].listing.exchange \in Ranked
    /\ pc = "deliver" /\ idx <= Len(new_listings) =>
          new_listings[idx].exchange \in Ranked
    /\ \A k \in DOMAIN cache_file.data :
          cache_file.data[k].exchange \in Ranked

C24_Witness ==
    /\ Committed
    /\ \E i \in DOMAIN feed :
          feed[i].exchange = "kucoin" /\ feed[i].confidence = 90
    /\ Len(alerts) = 1
    /\ alerts[1].result = "sent"
    /\ DOMAIN cache_file.data = {get_listing_key(alerts[1].listing)}
====
